---- MODULE Spec2Model ----
(***************************************************************************)
(* Model of the igo kernel's message codec (package igo, messages file):   *)
(* WireMsgToComposedMsg, ComposedMsg.ToWireMsg, MsgReceipt.SendResponse    *)
(* and NewMsg.                                                             *)
(*                                                                         *)
(* Representation.                                                         *)
(*  - A frame ([]byte) is a sequence of tokens.  A raw token is one byte.  *)
(*    A json token is a whole JSON text, kept as its syntax tree with the  *)
(*    members of an object in textual order.  A hexl / hexu token is the   *)
(*    64 characters of a 32 byte digest in lower / upper case hex.  A json *)
(*    token only ever occurs as the single token of a frame.               *)
(*  - A Go value is a pair <<t, v>>: t the dynamic type, v the value.      *)
(*  - A digest of HMAC-SHA256 is kept symbolically as the pair (padded     *)
(*    key, bytes written): the MAC is taken to be collision free.          *)
(***************************************************************************)
EXTENDS Integers, Sequences, FiniteSets, TLC

VARIABLES
    mode,      \* which part of the program this behaviour exercises
    pc,        \* codec: "start", "encoded", "wire", "done"
    msg,       \* codec: the ComposedMsg handed to ToWireMsg
    ids,       \* codec: the return identities put in front of the frames
    skey,      \* codec: the key ToWireMsg signs with
    encoded,   \* codec: the msgparts ToWireMsg returned
    orig,      \* codec: the frames first handed to the receiving side
    wire,      \* codec: msgparts[0:len] as handed to WireMsgToComposedMsg
    spare,     \* codec: msgparts[len:cap], the rest of the backing array
    edit,      \* codec: what was done to the frames since they were encoded
    rkey,      \* codec: the key the receiving side is configured with
    res,       \* codec: what WireMsgToComposedMsg did
    calls,     \* send: per caller, the receipt and the message of its call
    at,        \* send: per caller, where it is in SendResponse
    socket,    \* send: the frames sent on the socket, in order
    made       \* factory: the NewMsg calls made so far, in order

vars == <<mode, pc, msg, ids, skey, encoded, orig, wire, spare, edit, rkey, res,
          calls, at, socket, made>>

codecVars == <<pc, msg, ids, skey, encoded, orig, wire, spare, edit, rkey, res>>
sendVars == <<calls, at, socket>>

----------------------------------------------------------------------------
(* Bounds of the model *)

MaxIds == 2
MaxCalls == 3

(* Program constants *)

NumParts == 5
BlockSize == 64

----------------------------------------------------------------------------
(* Bytes and frames *)

Tag(x) == x[1]
Val(x) == x[2]

Raw(c) == <<"raw", c>>

RawFrame(cs) == [i \in 1..Len(cs) |-> Raw(cs[i])]

Delimiter == RawFrame(<<"<", "I", "D", "S", "|", "M", "S", "G", ">">>)

NilBytes == <<>>

RECURSIVE Concat(_)
Concat(parts) ==
    IF parts = <<>> THEN <<>> ELSE Head(parts) \o Concat(Tail(parts))

----------------------------------------------------------------------------
(* Go values *)

GoNil == <<"nil", 0>>
NilMap == <<"nilmap", 0>>
GoBool(b) == <<"bool", b>>
GoInt(n) == <<"int", n>>
GoFloat(n) == <<"float64", n>>
GoString(s) == <<"string", s>>
GoMap(f) == <<"map", f>>
GoSlice(s) == <<"slice", s>>
GoChan == <<"chan", 0>>

EmptyMap == GoMap([key \in {} |-> GoNil])

MsgHeader(id, user, session, type) ==
    [Msg_id |-> id, Username |-> user, Session |-> session, Msg_type |-> type]

ZeroHeader == MsgHeader("", "", "", "")

ComposedMsg(h, p, m, c) ==
    [Header |-> h, Parent_header |-> p, Metadata |-> m, Content |-> c]

ZeroMsg == ComposedMsg(ZeroHeader, ZeroHeader, NilMap, GoNil)

----------------------------------------------------------------------------
(* encoding/json *)

JNull == <<"null", 0>>
JBool(b) == <<"bool", b>>
JNum(n) == <<"num", n>>
JStr(s) == <<"str", s>>
JArr(s) == <<"arr", s>>
JObj(members) == <<"obj", members>>

JsonFrame(ast) == <<<<"json", ast>>>>

(* The keys a map of the model may hold, in the byte order Marshal sorts by. *)
KeyOrder == <<"a", "msg_id">>

SortedKeys(dom) == SelectSeq(KeyOrder, LAMBDA key : key \in dom)

RECURSIVE Encodable(_)
Encodable(val) ==
    CASE Tag(val) = "chan" -> FALSE
      [] Tag(val) = "map" -> \A key \in DOMAIN Val(val) : Encodable(Val(val)[key])
      [] Tag(val) = "slice" -> \A i \in DOMAIN Val(val) : Encodable(Val(val)[i])
      [] OTHER -> TRUE

RECURSIVE ToJSON(_)
ToJSON(val) ==
    CASE Tag(val) \in {"nil", "nilmap"} -> JNull
      [] Tag(val) = "bool" -> JBool(Val(val))
      [] Tag(val) \in {"int", "float64"} -> JNum(Val(val))
      [] Tag(val) = "string" -> JStr(Val(val))
      [] Tag(val) = "slice" -> JArr([i \in DOMAIN Val(val) |-> ToJSON(Val(val)[i])])
      [] Tag(val) = "map" ->
            LET keys == SortedKeys(DOMAIN Val(val))
            IN  JObj([i \in 1..Len(keys) |-> <<keys[i], ToJSON(Val(val)[keys[i]])>>])

(* json.Marshal of an interface{} or map value: the bytes and the error. *)
Marshal(val) ==
    IF Encodable(val)
    THEN [bytes |-> JsonFrame(ToJSON(val)), err |-> FALSE]
    ELSE [bytes |-> NilBytes, err |-> TRUE]

(* json.Marshal of a MsgHeader: its four tagged fields in declaration order. *)
MarshalHeader(h) ==
    [bytes |-> JsonFrame(JObj(<<
                  <<"msg_id", JStr(h.Msg_id)>>,
                  <<"username", JStr(h.Username)>>,
                  <<"session", JStr(h.Session)>>,
                  <<"msg_type", JStr(h.Msg_type)>> >>)),
     err |-> FALSE]

(* Whether a frame is one well formed JSON text. *)
ValidJSON(frame) == Len(frame) = 1 /\ Tag(frame[1]) = "json"

(* The members of a JSON object as a map; the last of equal keys wins. *)
LastIndex(members, key) ==
    CHOOSE i \in 1..Len(members) :
        /\ members[i][1] = key
        /\ \A n \in (i + 1)..Len(members) : members[n][1] # key

MemberKeys(members) == {members[i][1] : i \in 1..Len(members)}

(* Decoding a JSON value into an empty interface{}. *)
RECURSIVE FromJSON(_)
FromJSON(ast) ==
    CASE Tag(ast) = "null" -> GoNil
      [] Tag(ast) = "bool" -> GoBool(Val(ast))
      [] Tag(ast) = "num" -> GoFloat(Val(ast))
      [] Tag(ast) = "str" -> GoString(Val(ast))
      [] Tag(ast) = "arr" -> GoSlice([i \in DOMAIN Val(ast) |-> FromJSON(Val(ast)[i])])
      [] Tag(ast) = "obj" ->
            GoMap([key \in MemberKeys(Val(ast)) |->
                      FromJSON(Val(ast)[LastIndex(Val(ast), key)][2])])

(* json.Unmarshal(frame, &content) with content an interface{}; the error is
   dropped by the caller, and on an error the target is left as it was. *)
UnmarshalValue(frame, cur) ==
    IF ValidJSON(frame) THEN FromJSON(Val(frame[1])) ELSE cur

(* json.Unmarshal(frame, &metadata) with metadata a map[string]interface{}. *)
UnmarshalMap(frame, cur) ==
    IF ~ValidJSON(frame) THEN cur
    ELSE LET ast == Val(frame[1])
         IN  CASE Tag(ast) = "obj" ->
                    LET old == IF Tag(cur) = "map" THEN Val(cur) ELSE Val(EmptyMap)
                        new == Val(FromJSON(ast))
                    IN  GoMap([key \in DOMAIN old \cup DOMAIN new |->
                                  IF key \in DOMAIN new THEN new[key] ELSE old[key]])
               [] OTHER -> cur

(* One string field of the struct: set by the last member of that name whose
   value is a JSON string; null and values of another type leave it alone. *)
RECURSIVE FieldOf(_, _, _)
FieldOf(members, name, cur) ==
    IF members = <<>> THEN cur
    ELSE LET m == Head(members)
             next == IF m[1] = name /\ Tag(m[2]) = "str" THEN Val(m[2]) ELSE cur
         IN  FieldOf(Tail(members), name, next)

(* json.Unmarshal(frame, &header) with header a MsgHeader.  Member names are
   taken as spelled in the struct tags; names that differ from them only in
   letter case, which the decoder also accepts, do not occur in the model. *)
UnmarshalHeader(frame, cur) ==
    IF ~ValidJSON(frame) THEN cur
    ELSE LET ast == Val(frame[1])
         IN  CASE Tag(ast) = "obj" ->
                    MsgHeader(FieldOf(Val(ast), "msg_id", cur.Msg_id),
                              FieldOf(Val(ast), "username", cur.Username),
                              FieldOf(Val(ast), "session", cur.Session),
                              FieldOf(Val(ast), "msg_type", cur.Msg_type))
               [] OTHER -> cur

----------------------------------------------------------------------------
(* crypto/hmac, encoding/hex *)

RECURSIVE StripZeros(_)
StripZeros(key) ==
    IF key # <<>> /\ key[Len(key)] = 0
    THEN StripZeros(SubSeq(key, 1, Len(key) - 1))
    ELSE key

(* hmac.New: a key longer than the block is replaced by its hash, and the key
   is then padded with zero bytes to the block size; keys that differ only in
   trailing zero bytes are the same padded key. *)
HmacKey(key) ==
    IF Len(key) > BlockSize
    THEN [hashed |-> TRUE, bytes |-> key]
    ELSE [hashed |-> FALSE, bytes |-> StripZeros(key)]

(* mac.Write(part) for each part, then mac.Sum(nil): the digest of the
   concatenation of the parts. *)
MacSum(key, parts) == [key |-> HmacKey(key), data |-> Concat(parts)]

(* hex.Encode: lower case. *)
HexEncode(digest) == <<<<"hexl", digest>>>>

IsHexToken(tok) == Tag(tok) \in {"hexl", "hexu"}

(* make([]byte, hex.DecodedLen(len(src))) followed by hex.Decode(dst, src),
   whose error is dropped.  Both letter cases decode alike.  A source of odd
   length is decoded pair by pair before its length is reported, so one
   trailing byte after the 64 digits leaves the 32 decoded bytes in dst.  Any
   other source gives a buffer that is no digest (too short, too long, or
   zero from the first bad digit on). *)
HexDecode(src) ==
    CASE src = <<>> -> <<"bytes", <<>>>>
      [] Len(src) = 1 /\ IsHexToken(src[1]) -> <<"digest", Val(src[1])>>
      [] Len(src) = 2 /\ IsHexToken(src[1]) /\ Tag(src[2]) = "raw" ->
            <<"digest", Val(src[1])>>
      [] OTHER -> <<"bytes", src>>

(* hmac.Equal(mac.Sum(nil), signature) *)
HmacEqual(digest, signature) ==
    Tag(signature) = "digest" /\ Val(signature) = digest

----------------------------------------------------------------------------
(* ComposedMsg.ToWireMsg *)

(* A slip: the header and the parent header written in each other's frame. *)
ToWireMsgSwapped(m, signkey) ==
    LET header == MarshalHeader(m.Header).bytes
        parent_header == MarshalHeader(m.Parent_header).bytes
        metadata == Marshal(IF Tag(m.Metadata) = "nilmap" THEN EmptyMap ELSE m.Metadata).bytes
        content == Marshal(m.Content).bytes
        body == <<parent_header, header, metadata, content>>
    IN  IF signkey # <<>>
        THEN <<HexEncode(MacSum(signkey, body))>> \o body
        ELSE <<NilBytes>> \o body

ToWireMsg(m, signkey) ==
    LET header == MarshalHeader(m.Header).bytes
        parent_header == MarshalHeader(m.Parent_header).bytes
        metadata == Marshal(IF Tag(m.Metadata) = "nilmap" THEN EmptyMap ELSE m.Metadata).bytes
        content == Marshal(m.Content).bytes
        body == <<header, parent_header, metadata, content>>
    IN  IF signkey # <<>>
        THEN <<HexEncode(MacSum(signkey, body))>> \o body
        ELSE <<NilBytes>> \o body

----------------------------------------------------------------------------
(* WireMsgToComposedMsg *)

Returned(m, identities) == [outcome |-> "ok", msg |-> m, identities |-> identities]
SignatureError == [outcome |-> "InvalidSignatureError", msg |-> ZeroMsg, identities |-> <<>>]
Panicked == [outcome |-> "panic", msg |-> ZeroMsg, identities |-> <<>>]
NotCalled == [outcome |-> "none", msg |-> ZeroMsg, identities |-> <<>>]

HasDelimiter(msgparts) == \E n \in 1..Len(msgparts) : msgparts[n] = Delimiter

(* The loop of lines 42-45: the position of the first delimiter frame. *)
FirstDelimiter(msgparts) ==
    CHOOSE n \in 1..Len(msgparts) :
        /\ msgparts[n] = Delimiter
        /\ \A b \in 1..(n - 1) : msgparts[b] # Delimiter

(* Lines 61-65: the four frames after the signature, decoded with every
   error dropped. *)
ParseFrames(msgparts, d) ==
    ComposedMsg(UnmarshalHeader(msgparts[d + 2], ZeroHeader),
                UnmarshalHeader(msgparts[d + 3], ZeroHeader),
                UnmarshalMap(msgparts[d + 4], NilMap),
                UnmarshalValue(msgparts[d + 5], GoNil))

(* Lines 50-60.  The slice expression msgparts[i+2:i+6] is bounded by the
   capacity of msgparts, the index msgparts[i+1] by its length. *)
SignatureCheck(msgparts, backing, d, signkey) ==
    LET all == msgparts \o backing
    IN  IF d + 5 > Len(all) \/ d + 1 > Len(msgparts) THEN "panic"
        ELSE IF HmacEqual(MacSum(signkey, SubSeq(all, d + 2, d + 5)),
                          HexDecode(msgparts[d + 1]))
        THEN "ok" ELSE "mismatch"

(* A slip: the signature is validated whether or not a key is set. *)
WireMsgToComposedMsgStrict(msgparts, backing, signkey) ==
    IF ~HasDelimiter(msgparts) THEN Panicked
    ELSE LET d == FirstDelimiter(msgparts)
             identities == SubSeq(msgparts, 1, d - 1)
             check == SignatureCheck(msgparts, backing, d, signkey)
         IN  IF check = "panic" THEN Panicked
             ELSE IF check = "mismatch" THEN SignatureError
             ELSE IF d + 5 > Len(msgparts) THEN Panicked
             ELSE Returned(ParseFrames(msgparts, d), identities)

(* msgparts is msgparts[0:len]; backing is what lies between its length and
   its capacity.  A run-time panic (index or slice bounds out of range) ends
   the call without a return value. *)
WireMsgToComposedMsg(msgparts, backing, signkey) ==
    IF ~HasDelimiter(msgparts) THEN Panicked
    ELSE LET d == FirstDelimiter(msgparts)
             identities == SubSeq(msgparts, 1, d - 1)
             check == IF signkey # <<>>
                      THEN SignatureCheck(msgparts, backing, d, signkey)
                      ELSE "ok"
         IN  IF check = "panic" THEN Panicked
             ELSE IF check = "mismatch" THEN SignatureError
             ELSE IF d + 5 > Len(msgparts) THEN Panicked
             ELSE Returned(ParseFrames(msgparts, d), identities)

----------------------------------------------------------------------------
(* MsgReceipt.SendResponse *)

SNDMORE == {"SNDMORE"}
NoFlags == {}

(* The three library calls of lines 106, 107 and 108 in program order: the
   function called, the parts handed to it, and the flags.  The results of
   all three calls are discarded, and SendResponse has no result of its own. *)
SendResponse(identities, signkey, m) ==
    << [line |-> 106, fn |-> "SendMultipart", parts |-> identities, flags |-> SNDMORE],
       [line |-> 107, fn |-> "Send", parts |-> <<Delimiter>>, flags |-> SNDMORE],
       [line |-> 108, fn |-> "SendMultipart", parts |-> ToWireMsg(m, signkey),
        flags |-> NoFlags] >>

(* socket.Send and socket.SendMultipart are functions of the gozmq library,
   whose code is not among these sources.  Nothing is fixed here about what
   they do beyond the order of the parts: a send of one part either puts the
   frame on the socket or fails, a SendMultipart whose send failed sends no
   further part, and a SendMultipart of no parts either returns having sent
   nothing or ends the calling goroutine with a run-time panic. *)
EmptyPartsOutcomes == {"nothing", "panic"}

----------------------------------------------------------------------------
(* NewMsg *)

(* A slip: the parent's message type copied along with its session. *)
NewMsgKeepsType(msg_type, parent, u) ==
    ComposedMsg(MsgHeader(u, parent.Header.Username, parent.Header.Session,
                          parent.Header.Msg_type),
                parent.Header, NilMap, GoNil)

(* u is the string of the UUID that uuid.NewV4 drew from the random source. *)
NewMsg(msg_type, parent, u) ==
    ComposedMsg(MsgHeader(u, parent.Header.Username, parent.Header.Session,
                          msg_type),
                parent.Header, NilMap, GoNil)

----------------------------------------------------------------------------
(* Inputs *)

A1 == RawFrame(<<"A", "1">>)
B2 == RawFrame(<<"B", "2">>)

IdFrames == {A1, B2, Delimiter}

IdSeqs == UNION {[1..n -> IdFrames] : n \in 0..MaxIds}

Keys == {<<>>, <<1>>, <<1, 0>>, <<2>>}

H1 == MsgHeader("1", "u", "s", "execute_request")
H2 == MsgHeader("2", "", "s", "execute_reply")

Metadatas == {NilMap, EmptyMap, GoMap("a" :> GoInt(1)), GoMap("a" :> GoString("x"))}

Contents ==
    {GoNil, GoBool(TRUE), GoInt(1), GoFloat(1), GoString("x"),
     GoMap("a" :> GoString("x")), GoSlice(<<GoFloat(1)>>), GoChan}

Msgs ==
    {ComposedMsg(h, p, EmptyMap, GoString("x")) : h \in {H1, H2}, p \in {ZeroHeader, H1}}
        \cup {ComposedMsg(H1, ZeroHeader, m, GoNil) : m \in Metadatas}
        \cup {ComposedMsg(H2, H1, EmptyMap, c) : c \in Contents}

UUIDs == {"u1", "u2", "u3"}

MsgTypes == {"execute_reply", "status"}

Parents ==
    {ComposedMsg(H1, ZeroHeader, EmptyMap, GoString("x")),
     ComposedMsg(H2, H1, NilMap, GoNil),
     ComposedMsg(MsgHeader("u1", "v", "", "status"), H2, EmptyMap, GoNil)}

Callers == {"a", "b"}

SendInputs ==
    [a |-> {[ids |-> <<>>, key |-> <<>>, msg |-> ComposedMsg(H1, ZeroHeader, NilMap, GoNil)],
            [ids |-> <<A1>>, key |-> <<1>>, msg |-> ComposedMsg(H2, H1, EmptyMap, GoChan)]},
     b |-> {[ids |-> <<B2>>, key |-> <<1>>, msg |-> ComposedMsg(H2, H1, EmptyMap, GoInt(1))],
            [ids |-> <<A1>>, key |-> <<>>, msg |-> ComposedMsg(H1, H1, EmptyMap, GoString("x"))]}]

(* What a sender or the network may put in place of a frame: bytes that are
   neither JSON nor hex, the empty frame, the delimiter, other JSON texts,
   the hex digits of some digest with and without a byte after them, the
   same JSON object with its members in another order, and for a frame
   of hex digits the same digits in upper case, the digits followed by one
   more byte, and the digest under another key. *)
Reversed(s) == [i \in 1..Len(s) |-> s[Len(s) + 1 - i]]

Variants(frame) ==
    IF Len(frame) = 1 /\ Tag(frame[1]) = "hexl"
    THEN {<<<<"hexu", Val(frame[1])>>>>,
          frame \o RawFrame(<<"0">>),
          frame \o RawFrame(<<"0", "0">>),
          HexEncode([key |-> HmacKey(<<2>>), data |-> Val(frame[1]).data])}
    ELSE IF ValidJSON(frame) /\ Tag(Val(frame[1])) = "obj"
    THEN {JsonFrame(JObj(Reversed(Val(Val(frame[1])))))}
    ELSE {}

Replacements(frame) ==
    {NilBytes, A1, Delimiter, JsonFrame(JNum(1)), JsonFrame(JNull),
     JsonFrame(JObj(<< <<"msg_id", JNum(1)>>, <<"session", JStr("z")>> >>)),
     MarshalHeader(H1).bytes,
     HexEncode(MacSum(<<2>>, <<A1>>)),
     HexEncode(MacSum(<<2>>, <<A1>>)) \o RawFrame(<<"0">>)}
        \cup Variants(frame)

----------------------------------------------------------------------------
(* The codec: a message is encoded, the frames handed to the decoder are put
   together and may be changed or cut short, and are decoded. *)

Idle == /\ calls = <<>>
        /\ at = <<>>
        /\ socket = <<>>
        /\ made = <<>>

InitCodec ==
    /\ mode = "codec"
    /\ pc = "start"
    /\ msg \in Msgs
    /\ ids \in IdSeqs
    /\ skey \in Keys
    /\ encoded = <<>>
    /\ orig = <<>>
    /\ wire = <<>>
    /\ spare = <<>>
    /\ edit = "none"
    /\ rkey = skey
    /\ res = NotCalled
    /\ Idle

(* msg.ToWireMsg(skey) is called and returns its five msgparts. *)
Encode ==
    /\ pc = "start"
    /\ encoded' = ToWireMsg(msg, skey)
    /\ pc' = "encoded"
    /\ UNCHANGED <<mode, msg, ids, skey, orig, wire, spare, edit, rkey, res,
                   sendVars, made>>

(* The argument of WireMsgToComposedMsg is put together: the identities, the
   delimiter frame, and the five msgparts.  This is the input the round trip
   is stated for; it is no step of the program, and how frames travel over a
   socket is the subject of the reply specification below. *)
Compose ==
    /\ pc = "encoded"
    /\ wire' = ids \o <<Delimiter>> \o encoded
    /\ orig' = wire'
    /\ pc' = "wire"
    /\ UNCHANGED <<mode, msg, ids, skey, encoded, spare, edit, rkey, res,
                   sendVars, made>>

(* One frame is replaced by other bytes. *)
Tamper(p, frame) ==
    /\ pc = "wire"
    /\ edit = "none"
    /\ p \in 1..Len(wire)
    /\ frame # wire[p]
    /\ wire' = [wire EXCEPT ![p] = frame]
    /\ edit' = "frame"
    /\ UNCHANGED <<mode, pc, msg, ids, skey, encoded, orig, spare, rkey, res, sendVars, made>>

(* The frames are cut after the first n: copied to a slice of their own,
   resliced in place (the frames cut off stay in the backing array), or
   collected by append into an array left with unused nil entries. *)
Truncate(n, how) ==
    /\ pc = "wire"
    /\ edit = "none"
    /\ n \in 0..(Len(wire) - 1)
    /\ wire' = SubSeq(wire, 1, n)
    /\ spare' = CASE how = "copy" -> <<>>
                  [] how = "reslice" -> SubSeq(wire, n + 1, Len(wire))
                  [] how = "append" -> [i \in 1..(Len(wire) - n) |-> NilBytes]
    /\ edit' = "truncated"
    /\ UNCHANGED <<mode, pc, msg, ids, skey, encoded, orig, rkey, res, sendVars, made>>

(* The receiving side holds another key than the sender. *)
Reconfigure(signkey) ==
    /\ pc = "wire"
    /\ edit = "none"
    /\ signkey # rkey
    /\ rkey' = signkey
    /\ edit' = "key"
    /\ UNCHANGED <<mode, pc, msg, ids, skey, encoded, orig, wire, spare, res, sendVars, made>>

Decode ==
    /\ pc = "wire"
    /\ res' = WireMsgToComposedMsg(wire, spare, rkey)
    /\ pc' = "done"
    /\ UNCHANGED <<mode, msg, ids, skey, encoded, orig, wire, spare, edit, rkey,
                   sendVars, made>>

NextCodec ==
    \/ Encode
    \/ Compose
    \/ \E p \in 1..Len(wire) : \E frame \in Replacements(wire[p]) : Tamper(p, frame)
    \/ \E n \in 0..Len(wire) : \E how \in {"copy", "reslice", "append"} :
          Truncate(n, how)
    \/ \E signkey \in Keys : Reconfigure(signkey)
    \/ Decode

SpecCodec == InitCodec /\ [][NextCodec]_vars

----------------------------------------------------------------------------
(* Replies: each caller runs SendResponse on the same socket; a step is one
   send of one part, or the return of a library call that sent nothing. *)

Started == [state |-> "running", call |-> 1, part |-> 0]

InitSend ==
    /\ mode = "send"
    /\ calls \in [Callers -> UNION {SendInputs[c] : c \in Callers}]
    /\ \A c \in Callers : calls[c] \in SendInputs[c]
    /\ at = [c \in Callers |-> Started]
    /\ socket = <<>>
    /\ made = <<>>
    /\ pc = "start" /\ msg = ZeroMsg /\ ids = <<>> /\ skey = <<>> /\ encoded = <<>>
    /\ orig = <<>>
    /\ wire = <<>> /\ spare = <<>> /\ edit = "none" /\ rkey = <<>> /\ res = NotCalled

Plan(c) == SendResponse(calls[c].ids, calls[c].key, calls[c].msg)

(* The library call caller c is in. *)
Current(c) == Plan(c)[at[c].call]

(* Where c is once its current library call has returned: in the next call,
   or back from SendResponse. *)
Returns(c) ==
    IF at[c].call < Len(Plan(c))
    THEN [state |-> "running", call |-> at[c].call + 1, part |-> 0]
    ELSE [state |-> "returned", call |-> at[c].call, part |-> 0]

(* The next part of the current call is sent: its frame is on the socket. *)
SendNext(c) ==
    /\ at[c].state = "running"
    /\ at[c].part < Len(Current(c).parts)
    /\ socket' = Append(socket, [by |-> c, line |-> Current(c).line,
                                 frame |-> Current(c).parts[at[c].part + 1]])
    /\ at' = [at EXCEPT ![c] =
                 IF at[c].part + 1 < Len(Current(c).parts)
                 THEN [@ EXCEPT !.part = @ + 1]
                 ELSE Returns(c)]
    /\ UNCHANGED <<mode, calls, made, codecVars>>

(* Line 106: one identity frame. *)
SendIdentity(c) ==
    /\ Current(c).line = 106
    /\ SendNext(c)

(* Line 107. *)
SendDelimiter(c) ==
    /\ Current(c).line = 107
    /\ SendNext(c)

(* Line 108: one frame of the signed message. *)
SendPart(c) ==
    /\ Current(c).line = 108
    /\ SendNext(c)

(* The send of the next part fails: nothing is put on the socket, the library
   call returns its error, which SendResponse discards, and SendResponse goes
   on with its next line. *)
SendFails(c) ==
    /\ at[c].state = "running"
    /\ at[c].part < Len(Current(c).parts)
    /\ at' = [at EXCEPT ![c] = Returns(c)]
    /\ UNCHANGED <<mode, calls, socket, made, codecVars>>

(* Line 106 with no identities: SendMultipart is called with no parts. *)
SendNoParts(c, outcome) ==
    /\ at[c].state = "running"
    /\ Current(c).parts = <<>>
    /\ at' = [at EXCEPT ![c] =
                 IF outcome = "panic"
                 THEN [@ EXCEPT !.state = "panicked"]
                 ELSE Returns(c)]
    /\ UNCHANGED <<mode, calls, socket, made, codecVars>>

NextSend ==
    \E c \in Callers :
        \/ SendIdentity(c)
        \/ SendDelimiter(c)
        \/ SendPart(c)
        \/ SendFails(c)
        \/ \E outcome \in EmptyPartsOutcomes : SendNoParts(c, outcome)

SpecSend == InitSend /\ [][NextSend]_vars

----------------------------------------------------------------------------
(* The factory: a sequence of NewMsg calls. *)

InitNew ==
    /\ mode = "new"
    /\ made = <<>>
    /\ calls = <<>> /\ at = <<>> /\ socket = <<>>
    /\ pc = "start" /\ msg = ZeroMsg /\ ids = <<>> /\ skey = <<>> /\ encoded = <<>>
    /\ orig = <<>>
    /\ wire = <<>> /\ spare = <<>> /\ edit = "none" /\ rkey = <<>> /\ res = NotCalled

CallNewMsg(msg_type, parent, u) ==
    /\ Len(made) < MaxCalls
    /\ made' = Append(made, [msg_type |-> msg_type, parent |-> parent,
                             out |-> NewMsg(msg_type, parent, u)])
    /\ UNCHANGED <<mode, sendVars, codecVars>>

NextNew ==
    \E msg_type \in MsgTypes : \E parent \in Parents : \E u \in UUIDs :
        CallNewMsg(msg_type, parent, u)

SpecNew == InitNew /\ [][NextNew]_vars

----------------------------------------------------------------------------
(* Properties *)

\* Where ToWireMsg's frames lie in the frames first put on the wire.
SigAt == Len(ids) + 2
PartAt(n) == Len(ids) + 1 + n

NoDelimiterIn(frames) == ~HasDelimiter(frames)

\* The values encoding/json itself produces when it decodes into interface{}.
RECURSIVE JSONNative(_)
JSONNative(val) ==
    CASE Tag(val) \in {"nil", "bool", "float64", "string"} -> TRUE
      [] Tag(val) = "map" -> \A key \in DOMAIN Val(val) : JSONNative(Val(val)[key])
      [] Tag(val) = "slice" -> \A i \in DOMAIN Val(val) : JSONNative(Val(val)[i])
      [] OTHER -> FALSE

RoundTripCase == pc = "done" /\ edit = "none" /\ rkey = skey

RoundTripResult ==
    /\ res.outcome = "ok"
    /\ res.msg = msg
    /\ res.identities = ids

\* C1 as stated: for every message that can be encoded, every identity
\* sequence and every key, decoding the encoded frames with the same key
\* returns the message and the identities unchanged.
C1_RoundTripAsStated ==
    (RoundTripCase /\ Encodable(msg.Content) /\ Encodable(msg.Metadata))
        => RoundTripResult

\* C1 as amended: the round trip returns the message and the identities
\* unchanged when no identity frame is the delimiter, the metadata is a
\* non-nil map, and the metadata values and the content are values of the
\* types a JSON decode produces (nil, bool, float64, string, slices and
\* string-keyed maps of these).
C1_RoundTrip ==
    (/\ RoundTripCase
     /\ NoDelimiterIn(ids)
     /\ Tag(msg.Metadata) = "map"
     /\ JSONNative(msg.Metadata)
     /\ JSONNative(msg.Content))
        => RoundTripResult

C1_Witness ==
    /\ RoundTripCase
    /\ skey = <<1>>
    /\ ids = <<A1, B2>>
    /\ msg.Header # msg.Parent_header
    /\ msg.Content = GoMap("a" :> GoString("x"))
    /\ RoundTripResult

\* One of ToWireMsg's five frames was replaced by other bytes, and the frames
\* are decoded with the signing key.
OneFrameChanged ==
    /\ edit = "frame"
    /\ \E n \in 1..NumParts : wire[PartAt(n)] # orig[PartAt(n)]
    /\ rkey = skey

AnotherKey == edit = "key" /\ rkey # skey /\ rkey # <<>>

\* C2: after signing with a non-empty key, a change of the signature frame or
\* of one of the four JSON frames, or a decode with another non-empty key,
\* ends in the signature error.
C2_TamperDetected ==
    (/\ pc = "done"
     /\ skey # <<>>
     /\ NoDelimiterIn(ids)
     /\ OneFrameChanged \/ AnotherKey)
        => res.outcome = "InvalidSignatureError"

\* C3: the frames one reply wrote to the socket are contiguous: no frame of
\* another reply lies between two of them.
C3_NoInterleaving ==
    \A i, n \in 1..Len(socket) :
        (i < n /\ socket[i].by = socket[n].by)
            => \A b \in i..n : socket[b].by = socket[i].by

\* C4: frames without a delimiter frame end in a MalformedEnvelope error
\* returned to the caller.
C4_MissingDelimiter ==
    (pc = "done" /\ ~HasDelimiter(wire)) => res.outcome = "MalformedEnvelope"

\* C5: a delimiter followed by fewer than five frames ends in a
\* MalformedEnvelope error returned to the caller.
C5_Truncated ==
    (/\ pc = "done"
     /\ HasDelimiter(wire)
     /\ Len(wire) - FirstDelimiter(wire) < NumParts)
        => res.outcome = "MalformedEnvelope"

\* C6: a decode never succeeds when one of the four frames after the
\* signature is not a JSON text.
C6_ParseFailureSurfaced ==
    (pc = "done" /\ res.outcome = "ok")
        => \A n \in 2..NumParts : ValidJSON(wire[FirstDelimiter(wire) + n])

\* C7: with an empty key the decode never ends in the signature error,
\* whatever the signature frame holds, and ToWireMsg with an empty key leaves
\* frame 0 empty.
C7_TrustMode ==
    /\ (pc = "done" /\ rkey = <<>>) => res.outcome # "InvalidSignatureError"
    /\ (pc # "start" /\ skey = <<>>) => encoded[1] = NilBytes

C7_Witness ==
    /\ pc = "done"
    /\ rkey = <<>>
    /\ skey = <<>>
    /\ edit = "frame"
    /\ NoDelimiterIn(ids)
    /\ wire[SigAt] # orig[SigAt]
    /\ Len(wire[SigAt]) = 2
    /\ IsHexToken(wire[SigAt][1])
    /\ res.outcome = "ok"

Correlated(call) ==
    /\ call.out.Parent_header = call.parent.Header
    /\ call.out.Header.Session = call.parent.Header.Session
    /\ call.out.Header.Username = call.parent.Header.Username
    /\ call.out.Header.Msg_type = call.msg_type
    /\ call.out.Metadata = NilMap
    /\ call.out.Content = GoNil

\* C9 as stated: every message NewMsg made is correlated with its parent,
\* and its id differs from the parent's id and from the id of every other
\* message NewMsg made.
C9_CorrelationAsStated ==
    \A i \in 1..Len(made) :
        /\ Correlated(made[i])
        /\ made[i].out.Header.Msg_id # made[i].parent.Header.Msg_id
        /\ \A n \in 1..Len(made) :
              n # i => made[n].out.Header.Msg_id # made[i].out.Header.Msg_id

\* C9 as amended: every message NewMsg made is correlated with its parent,
\* and its id is the string of the UUID drawn for it.
C9_Correlation ==
    \A i \in 1..Len(made) :
        /\ Correlated(made[i])
        /\ made[i].out.Header.Msg_id \in UUIDs

C9_Witness ==
    /\ Len(made) = 2
    /\ made[1].msg_type # made[2].msg_type
    /\ made[1].parent.Header = H1
    /\ made[2].parent.Header = H2
    /\ made[1].msg_type # made[1].parent.Header.Msg_type
    /\ made[1].out.Header.Msg_id # made[2].out.Header.Msg_id

\* C10: a message whose content cannot be serialised never yields frames
\* whose content frame is empty.
C10_EncodingFailureSurfaced ==
    (pc # "start" /\ Marshal(msg.Content).err)
        => ~(Len(encoded) = NumParts /\ encoded[NumParts] = NilBytes)

====
